---- MODULE Spec2Model ----
(***************************************************************************)
(* Quickwire generator: the watch loop of scripts/cli.ts, the extraction   *)
(* cache of scripts/cache.ts and scripts/ast.ts, and the scan, emission,   *)
(* tracking and orphan cleanup of the generator module.                    *)
(*                                                                         *)
(* Paths are tuples of path segments.  A file's content is a sequence of   *)
(* lines; a line is a record [k, a, f, m, t]: its fixed text k, and the path  *)
(* a, the name f, the HTTP method m and the time stamp t interpolated into *)
(* it.                                                                     *)
(*                                                                         *)
(* Scheduling: Node runs one macrotask at a time and drains the microtask  *)
(* queue before the next one.  scanAllBackendFunctions is async and        *)
(* suspends only at `await walk(...)`: after each sub-directory and after  *)
(* the walk of the backend root.  Watcher callbacks and timers are         *)
(* macrotasks, so they run only when no scan is suspended; a caller of the *)
(* exported API can run between two segments of a scan, and other          *)
(* processes can change the file system at any time.                       *)
(***************************************************************************)
EXTENDS Naturals, Integers, Sequences, FiniteSets, TLC

(* ------------------------------ bounds --------------------------------- *)

\* file system changes made by other processes while the watcher runs
MaxEdits == 2

\* the same, in the behaviours where the API is also called directly
MaxApiEdits == 1

\* direct calls of the exported API
MaxApiCalls == 1

\* advances of the clock after the start of the process
MaxTicks == 2

\* declared parameters of a function handed to the emitters
MaxParams == 2

\* edits of the source tree in the runs with file system failures
MaxFaultEdits == 1

\* characters of the type expressions handed to parseTypeToSchema
MaxTypeLen == 4

\* calls of the exported API in the runs with recoverFromCorruption
MaxRecoverCalls == 2

(* --------------------------- configuration ----------------------------- *)

\* CONFIG.watchDebounceMs
WatchDebounceMs == 300

\* CONFIG.performance.cacheExpiryMs
CacheExpiryMs == 5 * 60 * 1000

\* awaitWriteFinish.stabilityThreshold of the watcher: the delay between a
\* write and its notification
StabilityThreshold == 100

\* Date.now() when the process starts: more than cacheExpiryMs after the
\* initial lastFullScan = 0
StartTime == 2 * CacheExpiryMs

DefaultMaxFiles == 1000

(* ------------------------------- paths --------------------------------- *)

BackendDir == <<"backend">>

ApiDir == <<"api">>

QuickwireDir == <<"quickwired">>

UsersTs == <<"backend", "admin", "users.ts">>

ContactTs == <<"backend", "contact.ts">>

NotesMd == <<"backend", "notes.md">>

Sources == {UsersTs, ContactTs, NotesMd}

\* fs.readdirSync order of the backend tree: admin/ (users.ts), contact.ts,
\* notes.md.  The root walk suspends once, after the sub-directory admin/.
WalkSegments == << <<UsersTs>>, <<ContactTs, NotesMd>> >>

Funcs == {"getUser", "addUser"}

\* the source texts of the model, as the sequence of their exported
\* function declarations (overloads export the same name more than once)
OneFunc == <<"getUser">>

TwoFuncs == <<"getUser", "addUser">>

Overloaded == <<"getUser", "getUser">>

NoFuncs == << >>

ContentsOf(s) ==
  IF s = UsersTs THEN {OneFunc, TwoFuncs, Overloaded}
  ELSE IF s = ContactTs THEN {OneFunc, TwoFuncs}
  ELSE {NoFuncs}

DocSource == <<"documentation">>

DocsRouteFile == <<"api", "quickwire-docs", "route.ts">>

SpecRouteFile == <<"api", "quickwire-docs", "spec", "route.ts">>

OrphanTs == <<"quickwired", "orphan.ts">>

OrphanMd == <<"quickwired", "NOTES.md">>

ManualPaths == {OrphanTs, OrphanMd}

Last(p) == p[Len(p)]

\* path.extname
ExtName(p) ==
  IF Last(p) \in {"users.ts", "contact.ts", "route.ts", "orphan.ts"} THEN ".ts"
  ELSE IF Last(p) \in {"notes.md", "NOTES.md"} THEN ".md"
  ELSE ""

SupportedExtensions == {".ts", ".js"}

\* the file names of this model that a pattern of CONFIG.excludePatterns
\* matches, as a regular expression or as a part of the path: none
ExcludedNames == {}

shouldProcessFile(p) ==
  /\ ExtName(p) \in SupportedExtensions
  /\ Last(p) \notin ExcludedNames

\* path.relative(CONFIG.backendDir, filePath) without its .ts/.js extension
RelativeNoExt(s) ==
  IF s = UsersTs THEN <<"admin", "users">>
  ELSE IF s = ContactTs THEN <<"contact">>
  ELSE <<"notes.md">>

pascalToKebab(f) ==
  IF f = "getUser" THEN "get-user"
  ELSE IF f = "addUser" THEN "add-user"
  ELSE f

\* `/${relativePath}/${pascalToKebab(func.name)}`
RouteOf(s, f) == RelativeNoExt(s) \o <<pascalToKebab(f)>>

\* a faulty variant of ApiFilePath: the directory is named after the
\* function as written, not after its kebab-case form
ApiFilePathPlainName(s, f) == ApiDir \o RelativeNoExt(s) \o <<f, "route.ts">>

\* path.join(CONFIG.apiDir, route, CONFIG.apiRouteTemplate)
ApiFilePath(s, f) == ApiDir \o RouteOf(s, f) \o <<"route.ts">>

\* path.join(CONFIG.quickwireDir, relativePath)
QuickwireFilePath(s) == QuickwireDir \o SubSeq(s, 2, Len(s))

TsSources == {s \in Sources : shouldProcessFile(s)}

ArtifactsOf(s) == {ApiFilePath(s, f) : f \in Funcs} \cup {QuickwireFilePath(s)}

(* ----------------------------- contents -------------------------------- *)

Marker == "// Auto-generated by Quickwire"

Line(k, a, f, m, t) == [k |-> k, a |-> a, f |-> f, m |-> m, t |-> t]

HasMarker(content) == \E i \in DOMAIN content : content[i].k = Marker

MarkedContent == <<Line(Marker, << >>, "", "", 0)>>

PlainContent == <<Line("// hand-written", << >>, "", "", 0)>>

\* A name is the sequence of its characters.
Upper == <<"A","B","C","D","E","F","G","H","I","J","K","L","M",
           "N","O","P","Q","R","S","T","U","V","W","X","Y","Z">>

Lower == <<"a","b","c","d","e","f","g","h","i","j","k","l","m",
           "n","o","p","q","r","s","t","u","v","w","x","y","z">>

toLowerCase(str) ==
  [i \in DOMAIN str |->
     IF \E k \in DOMAIN Upper : Upper[k] = str[i]
     THEN Lower[CHOOSE k \in DOMAIN Upper : Upper[k] = str[i]]
     ELSE str[i]]

\* a faulty variant of startsWith: only the first character is compared
startsWithFirstChar(str, prefix) ==
  Len(str) > 0 /\ Len(prefix) > 0 /\ str[1] = prefix[1]

startsWith(str, prefix) ==
  Len(prefix) <= Len(str) /\ SubSeq(str, 1, Len(prefix)) = prefix

\* CONFIG.httpMethods, in the order of Object.entries
httpMethods == <<
  [ method |-> "GET",
    prefixes |-> {
      <<"g","e","t">>, <<"f","e","t","c","h">>, <<"f","i","n","d">>,
      <<"l","i","s","t">>, <<"s","h","o","w">>, <<"r","e","a","d">>,
      <<"r","e","t","r","i","e","v","e">>, <<"s","e","a","r","c","h">>,
      <<"q","u","e","r","y">>, <<"v","i","e","w">>,
      <<"d","i","s","p","l","a","y">>, <<"l","o","a","d">>,
      <<"c","h","e","c","k">>, <<"v","e","r","i","f","y">>,
      <<"v","a","l","i","d","a","t","e">>, <<"c","o","u","n","t">>,
      <<"e","x","i","s","t","s">>, <<"h","a","s">>, <<"i","s">>,
      <<"c","a","n">> } ],
  [ method |-> "POST",
    prefixes |-> {
      <<"c","r","e","a","t","e">>, <<"a","d","d">>,
      <<"i","n","s","e","r","t">>, <<"p","o","s","t">>,
      <<"s","u","b","m","i","t">>, <<"s","e","n","d">>,
      <<"u","p","l","o","a","d">>, <<"r","e","g","i","s","t","e","r">>,
      <<"l","o","g","i","n">>, <<"s","i","g","n","u","p">>,
      <<"a","u","t","h","e","n","t","i","c","a","t","e">>,
      <<"a","u","t","h","o","r","i","z","e">>,
      <<"p","r","o","c","e","s","s">>, <<"e","x","e","c","u","t","e">>,
      <<"r","u","n">>, <<"p","e","r","f","o","r","m">>,
      <<"h","a","n","d","l","e">>, <<"t","r","i","g","g","e","r">>,
      <<"i","n","v","o","k","e">>, <<"c","a","l","l">>,
      <<"g","e","n","e","r","a","t","e">>, <<"b","u","i","l","d">>,
      <<"m","a","k","e">>, <<"p","r","o","d","u","c","e">>,
      <<"s","y","n","c">>, <<"i","m","p","o","r","t">>,
      <<"e","x","p","o","r","t">> } ],
  [ method |-> "PUT",
    prefixes |-> {
      <<"u","p","d","a","t","e">>, <<"e","d","i","t">>,
      <<"m","o","d","i","f","y">>, <<"c","h","a","n","g","e">>,
      <<"s","e","t">>, <<"p","u","t">>, <<"r","e","p","l","a","c","e">>,
      <<"t","o","g","g","l","e">>, <<"s","w","i","t","c","h">>,
      <<"e","n","a","b","l","e">>, <<"d","i","s","a","b","l","e">>,
      <<"a","c","t","i","v","a","t","e">>,
      <<"d","e","a","c","t","i","v","a","t","e">>,
      <<"p","u","b","l","i","s","h">>,
      <<"u","n","p","u","b","l","i","s","h">>,
      <<"a","p","p","r","o","v","e">>, <<"r","e","j","e","c","t">>,
      <<"a","c","c","e","p","t">>, <<"d","e","c","l","i","n","e">>,
      <<"a","s","s","i","g","n">>, <<"u","n","a","s","s","i","g","n">>,
      <<"m","o","v","e">>, <<"t","r","a","n","s","f","e","r">>,
      <<"m","i","g","r","a","t","e">>, <<"r","e","s","t","o","r","e">>,
      <<"r","e","s","e","t">>, <<"r","e","f","r","e","s","h">>,
      <<"r","e","n","e","w">>, <<"r","e","o","r","d","e","r">>,
      <<"s","o","r","t">>, <<"m","e","r","g","e">> } ],
  [ method |-> "PATCH",
    prefixes |-> {
      <<"p","a","t","c","h">>, <<"p","a","r","t","i","a","l">>,
      <<"i","n","c","r","e","m","e","n","t">>,
      <<"d","e","c","r","e","m","e","n","t">>, <<"a","p","p","e","n","d">>,
      <<"p","r","e","p","e","n","d">>, <<"a","d","j","u","s","t">>,
      <<"t","w","e","a","k">>, <<"f","i","n","e">>, <<"t","u","n","e">> } ],
  [ method |-> "DELETE",
    prefixes |-> {
      <<"d","e","l","e","t","e">>, <<"r","e","m","o","v","e">>,
      <<"d","e","s","t","r","o","y">>, <<"c","l","e","a","r">>,
      <<"c","l","e","a","n">>, <<"p","u","r","g","e">>, <<"d","r","o","p">>,
      <<"e","r","a","s","e">>, <<"w","i","p","e">>,
      <<"c","a","n","c","e","l">>, <<"r","e","v","o","k","e">>,
      <<"w","i","t","h","d","r","a","w">>,
      <<"u","n","i","n","s","t","a","l","l">>, <<"d","e","t","a","c","h">>,
      <<"d","i","s","c","o","n","n","e","c","t">>,
      <<"u","n","l","i","n","k">>, <<"a","r","c","h","i","v","e">>,
      <<"t","r","a","s","h">> } ] >>

\* the outer loop of detectHttpMethod from entry i on
RECURSIVE DetectFrom(_, _)
DetectFrom(lowerName, i) ==
  IF i > Len(httpMethods) THEN "POST"
  ELSE IF \E prefix \in httpMethods[i].prefixes : startsWith(lowerName, prefix)
       THEN httpMethods[i].method
       ELSE DetectFrom(lowerName, i + 1)

detectHttpMethod(functionName, parameters) ==
  DetectFrom(toLowerCase(functionName), 1)

\* the spelling of the function names of the source texts
Spelling(f) ==
  IF f = "getUser" THEN <<"g","e","t","U","s","e","r">>
  ELSE <<"a","d","d","U","s","e","r">>

\* the visit of analyzeModuleExports: one descriptor per exported function
\* declaration, in source order
Extract(text) ==
  [i \in DOMAIN text |->
     [name |-> text[i], httpMethod |-> detectHttpMethod(Spelling(text[i]), << >>)]]

LineCode(l) ==
  (IF l.k = Marker THEN 7 ELSE 3) + Len(l.a) + l.t
    + (IF l.f = "getUser" THEN 11 ELSE IF l.f = "addUser" THEN 13 ELSE 0)
    + (IF l.m = "GET" THEN 17 ELSE IF l.m = "POST" THEN 19 ELSE 0)

\* hash = ((hash << 5) - hash) + char, kept to 32 bits; the hash is held as
\* its two 16-bit halves <<high, low>>
HashStep(hash, code) ==
  LET low == hash[2] * 31 + code
      high == hash[1] * 31 + (low \div 65536)
  IN <<high % 65536, low % 65536>>

RECURSIVE HashFrom(_, _, _)
HashFrom(content, i, hash) ==
  IF i > Len(content) THEN hash
  ELSE HashFrom(content, i + 1, HashStep(hash, LineCode(content[i])))

\* calculateFileChecksum of a file holding content
Checksum(content) == HashFrom(content, 1, <<0, 0>>)

Upd(fn, key, val) == [x \in (DOMAIN fn) \cup {key} |-> IF x = key THEN val ELSE fn[x]]

Del(fn, keys) == [x \in (DOMAIN fn) \ keys |-> fn[x]]

Empty == [x \in {} |-> 0]

(* ------------------------------- state --------------------------------- *)

VARIABLES
  src,                \* backend tree: existing source |-> [text, mtime,
                      \* visited], visited being what the visit of
                      \* analyzeModuleExports collects from the text
  ev,                 \* watcher event not yet delivered, per source
  faulty,             \* paths on which file system calls fail: the write
                      \* of an output path, the read of a source path
  out,                \* output trees: existing file |-> content
  generatedFiles,     \* path |-> [generatedAt, sourceFile, checksum]
  backendToGenerated, \* source |-> set of paths
  fileCache,          \* source |-> [mtime, exports]
  deletedFiles,
  changedFiles,
  lastFullScan,
  isProcessing,
  pc,                 \* per call of scanAllBackendFunctions: its position
  loc,                \* per call: now, isFullRegen, hasChanges, the counts
  watchTimeout,       \* cli.ts: the handle kept by debouncedScan
  timers,             \* pending timers of the event loop: [id, due]
  watching,           \* runWatch has installed the watcher
  now,                \* Date.now()
  maxFilesToProcess,  \* CONFIG.performance.maxFilesToProcess
  editsLeft,          \* file system changes still to come
  ticksLeft,          \* advances of the clock still to come
  apiLeft,            \* direct calls of the exported API still to come
  queued,             \* history: files marked changed while isProcessing and
                      \* not handed to processBackendFile since
  editedInScan,       \* history: a source changed while the scan ran
  cleanSinceFull,     \* history: no source changed since a full scan ended
  lastNotify,         \* history: time of the last watcher notification
  burst,              \* history: <<file, event>> notified since the timer
                      \* last fired
  lastCall,           \* history: how the last call of the scan went
  swept,              \* history: files the last orphan cleanup removed
  steps,              \* history: the phases of the scan in progress or of
                      \* the last scan, in the order they were made
  probe               \* a call of one of the pure functions: its input, and
                      \* its result once it has returned

vars == <<src, ev, faulty, out, generatedFiles, backendToGenerated, fileCache,
          deletedFiles, changedFiles, lastFullScan, isProcessing, pc, loc,
          watchTimeout, timers, watching, now, maxFilesToProcess, editsLeft, ticksLeft,
          apiLeft, queued, editedInScan, cleanSinceFull, lastNotify, burst,
          lastCall, swept, steps, probe>>

ScanIds == {1, 2}

NoTimer == 0

IdleLoc == [now |-> 0, full |-> FALSE, hasChanges |-> FALSE,
            processed |-> 0, skipped |-> 0, errors |-> 0]

(* ------------------------------ cache.ts ------------------------------- *)

getFileMtime(s) == IF s \in DOMAIN src THEN src[s].mtime ELSE 0

\* a faulty variant of CacheValid: any entry of the path is a hit
CacheValidAnyMtime(cache, s) == s \in DOMAIN cache

CacheValid(cache, s) == s \in DOMAIN cache /\ cache[s].mtime = getFileMtime(s)

\* [hit, exports]: null is hit = FALSE
getCachedExports(cache, s) ==
  IF CacheValid(cache, s)
  THEN [hit |-> TRUE, exports |-> cache[s].exports]
  ELSE [hit |-> FALSE, exports |-> << >>]

setCachedExports(cache, s, exports) ==
  Upd(cache, s, [mtime |-> getFileMtime(s), exports |-> exports])

(* ------------------------------- ast.ts -------------------------------- *)

\* [exports, cache]: the descriptors returned and the cache afterwards
analyzeModuleExports(cache, s) ==
  LET cached == getCachedExports(cache, s)
  IN IF cached.hit THEN [exports |-> cached.exports, cache |-> cache]
     ELSE IF s \notin DOMAIN src \/ s \in faulty
          THEN [exports |-> << >>, cache |-> cache]
     ELSE [exports |-> src[s].visited,
           cache |-> setCachedExports(cache, s, src[s].visited)]

(* ----------------------- generator: file primitives -------------------- *)

\* The generator's view of disk and maps while one synchronous stretch of
\* code runs: G = [out, gen, b2g, cache, processed, skipped, errors, ok,
\* handed], handed being the files given to processBackendFile.

\* a faulty variant of FileMetadata: the checksum is taken of the file
\* that was at the path before the write
FileMetadataBeforeWrite(disk, p, content, source, t) ==
  [generatedAt |-> t, sourceFile |-> source,
   checksum |-> Checksum(IF p \in DOMAIN disk THEN disk[p] ELSE << >>)]

\* the record safeWriteFile makes once content is at path p
\* (part_008:75-80): calculateFileChecksum reads the file just written
FileMetadata(disk, p, content, source, t) ==
  [generatedAt |-> t, sourceFile |-> source, checksum |-> Checksum(content)]

\* a faulty variant of safeWriteFile: once a file of the scan was given up,
\* the writes that follow fail too
safeWriteFileSpreading(G, p, content, source, t) ==
  IF p \in faulty \/ G.skipped > 0
  THEN [G EXCEPT !.ok = FALSE]
  ELSE [G EXCEPT !.out = Upd(G.out, p, content),
                 !.gen = Upd(G.gen, p,
                             FileMetadata(G.out, p, content, source, t)),
                 !.ok = TRUE]

safeWriteFile(G, p, content, source, t) ==
  IF p \in faulty
  THEN [G EXCEPT !.ok = FALSE]
  ELSE [G EXCEPT !.out = Upd(G.out, p, content),
                 !.gen = Upd(G.gen, p,
                             FileMetadata(G.out, p, content, source, t)),
                 !.ok = TRUE]

\* the phase `name` is entered
Stepped(G, name) == [G EXCEPT !.steps = Append(@, name)]

safeRemoveFile(G, p) ==
  [G EXCEPT !.out = Del(G.out, {p}), !.gen = Del(G.gen, {p}), !.ok = TRUE]

RemoveAll(G, ps) ==
  [G EXCEPT !.out = Del(G.out, ps), !.gen = Del(G.gen, ps)]

(* -------------------------- generator: emitters ------------------------ *)

HandlerCode(s, func) ==
  << Line("import", RelativeNoExt(s), func.name, "", 0),
     Line("export async function", << >>, "", func.httpMethod, 0) >>

\* the forEach of generateApiRoutesForFile from function i on;
\* R = [G, endpoints]
RECURSIVE RoutesFrom(_, _, _, _, _)
RoutesFrom(R, s, funcs, i, t) ==
  IF i > Len(funcs) THEN R
  ELSE LET func == funcs[i]
           route == RouteOf(s, func.name)
           G1 == safeWriteFile(R.G, ApiFilePath(s, func.name), HandlerCode(s, func), s, t)
       IN RoutesFrom([G |-> G1,
                      endpoints |-> Upd(R.endpoints, func.name,
                                        [route |-> route, method |-> func.httpMethod])],
                     s, funcs, i + 1, t)

generateApiRoutesForFile(G, s, t) ==
  LET an == analyzeModuleExports(G.cache, s)
  IN RoutesFrom([G |-> [G EXCEPT !.cache = an.cache], endpoints |-> Empty],
                s, an.exports, 1, t)

RECURSIVE StubsFrom(_, _, _)
StubsFrom(funcs, i, endpoints) ==
  IF i > Len(funcs) THEN << >>
  ELSE LET func == funcs[i]
       IN (IF func.name \in DOMAIN endpoints
           THEN << Line("export const", <<"api">> \o endpoints[func.name].route,
                        func.name, endpoints[func.name].method, 0) >>
           ELSE << >>)
          \o StubsFrom(funcs, i + 1, endpoints)

ClientHeader(s, t) ==
  << Line(Marker, << >>, "", "", 0),
     Line("// Generated from:", SubSeq(s, 2, Len(s)), "", "", 0),
     Line("// Generated at:", << >>, "", "", t) >>

generateQuickwireFile(G, s, endpoints, t) ==
  LET an == analyzeModuleExports(G.cache, s)
      G1 == [G EXCEPT !.cache = an.cache]
  IN IF Len(an.exports) = 0 THEN [G1 EXCEPT !.ok = FALSE]
     ELSE safeWriteFile(G1, QuickwireFilePath(s),
                        ClientHeader(s, t) \o StubsFrom(an.exports, 1, endpoints), s, t)

(* ----------------------- generator: processBackendFile ----------------- *)

\* the paths whose record names its own path as sourceFile (the loop
\* variable of part_008:690 shadows the parameter filePath)
NewFiles(gen, s) == {p \in DOMAIN gen : gen[p].sourceFile = p}

processBackendFile(G, s, t) ==
  IF ~shouldProcessFile(s) \/ s \notin DOMAIN src THEN [G EXCEPT !.ok = FALSE]
  ELSE
    LET G1 == IF s \in DOMAIN G.b2g
              THEN [RemoveAll(G, G.b2g[s]) EXCEPT !.b2g = Del(G.b2g, {s})]
              ELSE G
        an == analyzeModuleExports(G1.cache, s)
        G2 == [G1 EXCEPT !.cache = an.cache]
    IN IF Len(an.exports) = 0 THEN [G2 EXCEPT !.ok = FALSE]
       ELSE
         LET R == generateApiRoutesForFile(G2, s, t)
             G3 == generateQuickwireFile(R.G, s, R.endpoints, t)
         IN IF ~G3.ok THEN G3
            ELSE IF NewFiles(G3.gen, s) # {}
                 THEN [G3 EXCEPT !.b2g = Upd(G3.b2g, s, NewFiles(G3.gen, s))]
                 ELSE G3

(* --------------------------- generator: walk --------------------------- *)

\* the loop of walk over the entries of one stretch, from entry i on
RECURSIVE WalkFrom(_, _, _, _, _)
WalkFrom(G, entries, i, full, t) ==
  IF i > Len(entries) THEN G
  ELSE IF entries[i] \notin DOMAIN src THEN WalkFrom(G, entries, i + 1, full, t)
  ELSE IF G.processed + G.skipped + G.errors > maxFilesToProcess THEN G
  ELSE IF ~full /\ entries[i] \notin changedFiles
       THEN WalkFrom([G EXCEPT !.skipped = @ + 1], entries, i + 1, full, t)
  ELSE LET G1 == processBackendFile(G, entries[i], t)
           G2 == [G1 EXCEPT !.handed = @ \cup {entries[i]}]
       IN WalkFrom(IF G1.ok THEN [G2 EXCEPT !.processed = @ + 1]
                   ELSE [G2 EXCEPT !.skipped = @ + 1],
                   entries, i + 1, full, t)

(* ----------------------- generator: documentation ---------------------- *)

AllEntries == WalkSegments[1] \o WalkSegments[2]

RECURSIVE DocLines(_, _, _)
DocLines(s, funcs, i) ==
  IF i > Len(funcs) THEN << >>
  ELSE << Line("path", <<"api">> \o RouteOf(s, funcs[i].name), funcs[i].name,
               funcs[i].httpMethod, 0) >>
       \o DocLines(s, funcs, i + 1)

\* walkDir of generateApiDocumentation; D = [cache, docs]
RECURSIVE DocsFrom(_, _)
DocsFrom(D, i) ==
  IF i > Len(AllEntries) THEN D
  ELSE LET s == AllEntries[i]
       IN IF s \in DOMAIN src /\ shouldProcessFile(s)
          THEN LET an == analyzeModuleExports(D.cache, s)
               IN DocsFrom([cache |-> an.cache,
                            docs |-> D.docs \o DocLines(s, an.exports, 1)], i + 1)
          ELSE DocsFrom(D, i + 1)

\* uniqueDocs: one entry per operationId, path and method
RECURSIVE Dedup(_)
Dedup(docs) ==
  IF docs = << >> THEN << >>
  ELSE LET rest == Dedup(SubSeq(docs, 1, Len(docs) - 1))
           last == docs[Len(docs)]
       IN IF \E j \in DOMAIN rest : rest[j] = last THEN rest ELSE Append(rest, last)

generateDocumentationFiles(G, t) ==
  LET D == DocsFrom([cache |-> G.cache, docs |-> << >>], 1)
      docsRouteContent ==
        << Line("x-generated-at", << >>, "", "", t) >> \o Dedup(D.docs)
        \o << Line("<p>Generated at:", << >>, "", "", t) >>
      specRouteContent == << Line("import { openApiSpec }", << >>, "", "", 0) >>
      G1 == safeWriteFile([G EXCEPT !.cache = D.cache], DocsRouteFile,
                          docsRouteContent, DocSource, t)
  IN safeWriteFile(Stepped(G1, "docs"), SpecRouteFile, specRouteContent, DocSource, t)

(* ------------------------ generator: orphan cleanup -------------------- *)

IsTsOrJs(p) == ExtName(p) \in {".ts", ".js"}

\* a faulty variant of IsOrphan: every untracked .ts/.js file is removed
IsOrphanNoMarkerTest(G, p) == IsTsOrJs(p) /\ p \notin DOMAIN G.gen

\* the test of walkAndCleanup on one file of the output trees
IsOrphan(G, p) == IsTsOrJs(p) /\ p \notin DOMAIN G.gen /\ HasMarker(G.out[p])

cleanupOrphanedFiles(G) ==
  Stepped(RemoveAll(G, {p \in DOMAIN G.out : IsOrphan(G, p)}), "sweep")

(* ---------------------- generator: change tracking --------------------- *)

\* a faulty variant of Invalidate: the entry is kept
InvalidateNothing(cache, s) == cache

\* the fileCache after markFileChanged / markFileDeleted of s
Invalidate(cache, s) == Del(cache, {s})

markFileChanged(s) ==
  /\ changedFiles' = changedFiles \cup {s}
  /\ fileCache' = Invalidate(fileCache, s)
  /\ deletedFiles' = deletedFiles \ {s}
  /\ queued' = IF isProcessing THEN queued \cup {s} ELSE queued

markFileDeleted(s) ==
  /\ deletedFiles' = deletedFiles \cup {s}
  /\ changedFiles' = changedFiles \ {s}
  /\ fileCache' = Invalidate(fileCache, s)
  /\ queued' = queued \ {s}

HasChanges == changedFiles # {} \/ deletedFiles # {}

CacheExpired == now - lastFullScan > CacheExpiryMs

TooManyChanges == 2 * Cardinality(changedFiles) > maxFilesToProcess

\* a faulty variant of shouldRegenerateEverything: every request is taken
\* for a full regeneration
shouldRegenerateAlways == TRUE

shouldRegenerateEverything == HasChanges \/ CacheExpired \/ TooManyChanges

(* ---------------------- scanAllBackendFunctions ------------------------ *)

AllIdle == \A i \in ScanIds : pc[i] = "idle"

\* a faulty variant of ScanGuard: the busy flag is not tested
ScanGuardAlways == TRUE

\* part_008:709: a call goes on only when no scan is in progress
ScanGuard == ~isProcessing

\* a faulty variant of BusyAfterReturn: the flag is left as the scan set it
BusyAfterReturnKept == TRUE

\* part_008:870-872: the finally block of a call that passed the guard, run
\* on the early return, on the normal end and after the catch
BusyAfterReturn == FALSE

CurG(i) ==
  [out |-> out, gen |-> generatedFiles, b2g |-> backendToGenerated,
   cache |-> fileCache, processed |-> loc[i].processed,
   skipped |-> loc[i].skipped, errors |-> loc[i].errors, ok |-> TRUE,
   handed |-> {}, steps |-> steps]

\* the assignments every stretch of a scan makes from the view G it ends with
Commit(G) ==
  /\ out' = G.out
  /\ generatedFiles' = G.gen
  /\ backendToGenerated' = G.b2g
  /\ fileCache' = G.cache
  /\ queued' = queued \ G.handed
  /\ steps' = G.steps

\* the view after the reset of a full regeneration and after the artifacts
\* of the deleted sources are removed (part_008:726-756)
AfterDeletions(i, full) ==
  LET G0 == [CurG(i) EXCEPT
               !.gen = IF full THEN Empty ELSE @,
               !.b2g = IF full THEN Empty ELSE @,
               !.cache = IF full /\ CacheExpired THEN Empty ELSE @]
      gone == UNION {G0.b2g[d] : d \in deletedFiles \cap DOMAIN G0.b2g}
  IN [RemoveAll(G0, gone) EXCEPT !.b2g = Del(@, deletedFiles),
                                 !.cache = Del(@, deletedFiles),
                                 !.steps = <<"deletions">>]

\* One call of scanAllBackendFunctions, up to its first suspension: it is
\* refused while a scan runs, returns at once when nothing changed, and
\* otherwise resets, retires the deleted sources and walks admin/.  The
\* call takes the first free activation i.
ScanCall(i) ==
  /\ pc[i] = "idle"
  /\ \A j \in ScanIds : j < i => pc[j] # "idle"
  /\ IF ~ScanGuard
     THEN /\ lastCall' = "refused"
          /\ UNCHANGED <<out, generatedFiles, backendToGenerated, fileCache,
                         deletedFiles, isProcessing, pc, loc, queued, editedInScan,
                         steps>>
     ELSE IF ~HasChanges /\ ~shouldRegenerateEverything
     THEN /\ lastCall' = "nochange"
          /\ isProcessing' = BusyAfterReturn
          /\ UNCHANGED <<out, generatedFiles, backendToGenerated, fileCache,
                         deletedFiles, pc, loc, queued, editedInScan, steps>>
     ELSE LET full == shouldRegenerateEverything
              G == WalkFrom(Stepped(AfterDeletions(i, full), "walk"),
                            WalkSegments[1], 1, full, now)
          IN /\ Commit(G)
             /\ deletedFiles' = {}
             /\ isProcessing' = TRUE
             /\ pc' = [pc EXCEPT ![i] = "walk"]
             /\ loc' = [loc EXCEPT ![i] = [now |-> now, full |-> full,
                                           hasChanges |-> HasChanges,
                                           processed |-> G.processed,
                                           skipped |-> G.skipped,
                                           errors |-> G.errors]]
             /\ editedInScan' = FALSE
             /\ lastCall' = "started"
  /\ UNCHANGED <<changedFiles, lastFullScan, cleanSinceFull, swept>>

\* the rest of the walk of the backend root, after `await walk(admin/)`
ScanResume(i) ==
  /\ pc[i] = "walk"
  /\ LET G == WalkFrom(CurG(i), WalkSegments[2], 1, loc[i].full, now)
     IN /\ Commit(G)
        /\ loc' = [loc EXCEPT ![i].processed = G.processed,
                              ![i].skipped = G.skipped,
                              ![i].errors = G.errors]
  /\ pc' = [pc EXCEPT ![i] = "post"]
  /\ UNCHANGED <<src, ev, faulty, deletedFiles, changedFiles, lastFullScan,
                 isProcessing, watchTimeout, timers, watching, now,
                 maxFilesToProcess, probe, editsLeft, ticksLeft, apiLeft, editedInScan,
                 cleanSinceFull, lastNotify, burst, lastCall, swept>>

\* a faulty variant of AfterWalk: the orphan cleanup runs before the
\* documentation is generated
AfterWalkSweepFirst(G, t) ==
  [view |-> generateDocumentationFiles(cleanupOrphanedFiles(G), t),
   swept |-> DOMAIN G.out \ DOMAIN cleanupOrphanedFiles(G).out]

\* part_008:811-821: generateDocumentationFiles(), then
\* cleanupOrphanedFiles(); view is the generator's view afterwards, swept
\* the files the cleanup removed
AfterWalk(G, t) ==
  [view |-> cleanupOrphanedFiles(generateDocumentationFiles(G, t)),
   swept |-> DOMAIN generateDocumentationFiles(G, t).out
               \ DOMAIN cleanupOrphanedFiles(generateDocumentationFiles(G, t)).out]

\* after `await walk(CONFIG.backendDir)`: documentation, orphan cleanup,
\* lastFullScan, changedFiles.clear() and the finally block
ScanFinish(i) ==
  /\ pc[i] = "post"
  /\ Commit(AfterWalk(CurG(i), now).view)
  /\ swept' = AfterWalk(CurG(i), now).swept
  /\ lastFullScan' = IF loc[i].full THEN loc[i].now ELSE lastFullScan
  /\ changedFiles' = {}
  /\ isProcessing' = BusyAfterReturn
  /\ pc' = [pc EXCEPT ![i] = "idle"]
  /\ loc' = [loc EXCEPT ![i] = IdleLoc]
  /\ cleanSinceFull' = IF loc[i].full /\ ~editedInScan THEN TRUE ELSE cleanSinceFull
  /\ UNCHANGED <<src, ev, faulty, deletedFiles, watchTimeout, timers,
                 watching, now, maxFilesToProcess, probe, editsLeft, ticksLeft, apiLeft,
                 editedInScan, lastNotify, burst, lastCall>>

(* ------------------------------- cli.ts -------------------------------- *)

\* a faulty variant of Cleared: the pending timer is left to run
ClearedNothing(pending, handle) == pending

\* clearTimeout(watchTimeout): a fired or cleared handle is ignored
Cleared(pending, handle) == {tm \in pending : tm.id # handle}

FreeId(pending) ==
  CHOOSE n \in 1..(Cardinality(pending) + 1) :
    /\ \A tm \in pending : tm.id # n
    /\ \A m \in 1..(n - 1) : \E tm \in pending : tm.id = m

debouncedScan ==
  LET kept == Cleared(timers, watchTimeout)
      id == FreeId(kept)
  IN /\ timers' = kept \cup {[id |-> id, due |-> now + WatchDebounceMs]}
     /\ watchTimeout' = id

\* runWatch: the initial scan, then the watcher is installed
RunWatch(i) ==
  /\ ~watching
  /\ AllIdle
  /\ ScanCall(i)
  /\ watching' = TRUE
  /\ UNCHANGED <<src, ev, faulty, watchTimeout, timers, now,
                 maxFilesToProcess, probe, editsLeft, ticksLeft, apiLeft, lastNotify, burst>>

\* watcher.on("add") and watcher.on("change")
OnAddOrChange(s) ==
  /\ watching
  /\ AllIdle
  /\ ev[s] \in {"add", "change"}
  /\ markFileChanged(s)
  /\ debouncedScan
  /\ ev' = [ev EXCEPT ![s] = "none"]
  /\ lastNotify' = now
  /\ burst' = burst \cup {<<s, ev[s]>>}
  /\ UNCHANGED <<src, faulty, out, generatedFiles, backendToGenerated,
                 lastFullScan, isProcessing, pc, loc, watching, now,
                 maxFilesToProcess, probe, editsLeft, ticksLeft, apiLeft, editedInScan,
                 cleanSinceFull, lastCall, swept, steps>>

\* watcher.on("unlink")
OnUnlink(s) ==
  /\ watching
  /\ AllIdle
  /\ ev[s] = "unlink"
  /\ IF shouldProcessFile(s)
     THEN markFileChanged(s)
     ELSE UNCHANGED <<changedFiles, fileCache, deletedFiles, queued>>
  /\ debouncedScan
  /\ ev' = [ev EXCEPT ![s] = "none"]
  /\ lastNotify' = now
  /\ burst' = burst \cup {<<s, "unlink">>}
  /\ UNCHANGED <<src, faulty, out, generatedFiles, backendToGenerated,
                 lastFullScan, isProcessing, pc, loc, watching, now,
                 maxFilesToProcess, probe, editsLeft, ticksLeft, apiLeft, editedInScan,
                 cleanSinceFull, lastCall, swept, steps>>

\* the callback of the debounce timer
TimerFire(i) ==
  /\ AllIdle
  /\ \E tm \in timers :
       /\ tm.due <= now
       /\ timers' = timers \ {tm}
  /\ ScanCall(i)
  /\ burst' = {}
  /\ lastNotify' = 0
  /\ UNCHANGED <<src, ev, faulty, watchTimeout, watching, now,
                 maxFilesToProcess, probe, editsLeft, ticksLeft, apiLeft>>

(* ------------------------- callers of the API -------------------------- *)

ApiScan(i) ==
  /\ watching
  /\ apiLeft > 0
  /\ apiLeft' = apiLeft - 1
  /\ ScanCall(i)
  /\ UNCHANGED <<src, ev, faulty, watchTimeout, timers, watching, now,
                 maxFilesToProcess, probe, editsLeft, ticksLeft, lastNotify, burst>>

ApiMarkFileChanged(s) ==
  /\ watching
  /\ apiLeft > 0
  /\ apiLeft' = apiLeft - 1
  /\ markFileChanged(s)
  /\ UNCHANGED <<src, ev, faulty, out, generatedFiles, backendToGenerated,
                 lastFullScan, isProcessing, pc, loc, watchTimeout, timers,
                 watching, now, maxFilesToProcess, probe, editsLeft, ticksLeft, editedInScan,
                 cleanSinceFull, lastNotify, burst, lastCall, swept, steps>>

ApiMarkFileDeleted(s) ==
  /\ watching
  /\ apiLeft > 0
  /\ apiLeft' = apiLeft - 1
  /\ markFileDeleted(s)
  /\ UNCHANGED <<src, ev, faulty, out, generatedFiles, backendToGenerated,
                 lastFullScan, isProcessing, pc, loc, watchTimeout, timers,
                 watching, now, maxFilesToProcess, probe, editsLeft, ticksLeft, editedInScan,
                 cleanSinceFull, lastNotify, burst, lastCall, swept, steps>>

(* --------------------------- the environment --------------------------- *)

Notify(s, kind) == [ev EXCEPT ![s] = kind]

\* another process writes a source file
EditSource(s, text) ==
  /\ watching
  /\ editsLeft > 0
  /\ text \in ContentsOf(s)
  /\ s \in DOMAIN src => src[s].text # text
  /\ src' = Upd(src, s, [text |-> text, mtime |-> now, visited |-> Extract(text)])
  /\ ev' = Notify(s, IF s \in DOMAIN src /\ ev[s] # "add" THEN "change" ELSE "add")
  /\ editsLeft' = editsLeft - 1
  /\ editedInScan' = (editedInScan \/ isProcessing)
  /\ cleanSinceFull' = FALSE
  /\ UNCHANGED <<faulty, out, generatedFiles, backendToGenerated, fileCache,
                 deletedFiles, changedFiles, lastFullScan, isProcessing, pc,
                 loc, watchTimeout, timers, watching, now, maxFilesToProcess, probe,
                 ticksLeft, apiLeft, queued, lastNotify, burst, lastCall, swept, steps>>

\* another process deletes a source file
DeleteSource(s) ==
  /\ watching
  /\ editsLeft > 0
  /\ s \in DOMAIN src
  /\ src' = Del(src, {s})
  /\ ev' = Notify(s, IF ev[s] = "add" THEN "none" ELSE "unlink")
  /\ editsLeft' = editsLeft - 1
  /\ editedInScan' = (editedInScan \/ isProcessing)
  /\ cleanSinceFull' = FALSE
  /\ UNCHANGED <<faulty, out, generatedFiles, backendToGenerated, fileCache,
                 deletedFiles, changedFiles, lastFullScan, isProcessing, pc,
                 loc, watchTimeout, timers, watching, now, maxFilesToProcess, probe,
                 ticksLeft, apiLeft, queued, lastNotify, burst, lastCall, swept, steps>>

\* somebody puts a file of their own into the client output tree
PlaceFile(p, content) ==
  /\ editsLeft > 0
  /\ p \in ManualPaths
  /\ p \notin DOMAIN out
  /\ content \in {MarkedContent, PlainContent}
  /\ out' = Upd(out, p, content)
  /\ editsLeft' = editsLeft - 1
  /\ UNCHANGED <<src, ev, faulty, generatedFiles, backendToGenerated,
                 fileCache, deletedFiles, changedFiles, lastFullScan,
                 isProcessing, pc, loc, watchTimeout, timers, watching, now,
                 maxFilesToProcess, probe, ticksLeft, apiLeft, queued, editedInScan,
                 cleanSinceFull, lastNotify, burst, lastCall, swept, steps>>

\* the spans of time the clock advances by: up to the next timer, less
\* than the debounce interval, the debounce interval, the staleness window
TickSteps ==
  {StabilityThreshold, WatchDebounceMs, CacheExpiryMs} \cup {tm.due - now : tm \in timers}

\* time passes while the event loop is idle, up to the next timer at most
Tick ==
  /\ watching
  /\ ticksLeft > 0
  /\ AllIdle
  /\ \E d \in TickSteps :
       /\ d > 0
       /\ \A tm \in timers : now + d <= tm.due
       /\ now' = now + d
  /\ ticksLeft' = ticksLeft - 1
  /\ UNCHANGED <<src, ev, faulty, out, generatedFiles, backendToGenerated,
                 fileCache, deletedFiles, changedFiles, lastFullScan,
                 isProcessing, pc, loc, watchTimeout, timers, watching,
                 maxFilesToProcess, probe, editsLeft, apiLeft, queued, editedInScan,
                 cleanSinceFull, lastNotify, burst, lastCall, swept, steps>>

(* ------------------- emitters: query-string parameters ----------------- *)

\* A type expression is the sequence of its tokens.
StringType == <<"string">>

\* { id: string }
ObjectType == <<"{", "id", ":", "string", "}">>

\* param.type.startsWith("{") && param.type.endsWith("}")
isObjectDestructured(param) ==
  /\ Len(param.type) > 0
  /\ param.type[1] = "{"
  /\ param.type[Len(param.type)] = "}"

\* The values a caller passes: undefined, a string, or an object given by
\* the set of its keys whose value is neither undefined nor null.
Undefined == [kind |-> "undefined", keys |-> {}]

\* The keys the stub of a GET/DELETE function appends to its
\* URLSearchParams when it is called with args (part_008:325-349).
StubQueryKeys(func, args) ==
  IF Len(func.parameters) = 1 /\ isObjectDestructured(func.parameters[1])
  THEN IF args[1] # Undefined THEN args[1].keys ELSE {}
  ELSE {func.parameters[i].name :
          i \in {i \in DOMAIN func.parameters : args[i] # Undefined}}

\* The keys the handler of a GET/DELETE function reads with
\* searchParams.get (part_008:441-447).
HandlerQueryKeys(func) == {func.parameters[i].name : i \in DOMAIN func.parameters}

\* functionCallParams of the handler: argument i of the original function is
\* the value read under the name of parameter i, null when the key is absent
HandlerCallArgs(func, written) ==
  [i \in DOMAIN func.parameters |->
     IF func.parameters[i].name \in written THEN "string" ELSE "null"]

(* --------------------- documentation: type schemas --------------------- *)

\* A type expression is the sequence of its tokens: the punctuation
\* characters and the blank one by one, a name as one token.

\* String.prototype.trim
RECURSIVE trim(_)
trim(str) ==
  IF str = << >> THEN str
  ELSE IF str[1] = " " THEN trim(SubSeq(str, 2, Len(str)))
  ELSE IF str[Len(str)] = " " THEN trim(SubSeq(str, 1, Len(str) - 1))
  ELSE str

endsWith(str, suffix) ==
  Len(suffix) <= Len(str)
  /\ SubSeq(str, Len(str) - Len(suffix) + 1, Len(str)) = suffix

includes(str, ch) == \E i \in DOMAIN str : str[i] = ch

\* str.indexOf(ch), counted from 1; 0 when ch does not occur
indexOf(str, ch) ==
  IF includes(str, ch) THEN CHOOSE i \in DOMAIN str :
                              str[i] = ch /\ \A j \in 1..(i - 1) : str[j] # ch
  ELSE 0

\* str.split(ch)
RECURSIVE split(_, _)
split(str, ch) ==
  IF ~includes(str, ch) THEN <<str>>
  ELSE <<SubSeq(str, 1, indexOf(str, ch) - 1)>>
       \o split(SubSeq(str, indexOf(str, ch) + 1, Len(str)), ch)

\* str.match(/^name<(.+)>$/): the captured text, << >> when there is no match
GenericArgument(str, name) ==
  IF Len(str) >= 4 /\ str[1] = name /\ str[2] = "<" /\ str[Len(str)] = ">"
  THEN SubSeq(str, 3, Len(str) - 1)
  ELSE << >>

\* the loop of splitObjectProperties from character i on;
\* S = [props, current, braceCount, inString, stringChar]
RECURSIVE SplitPropsFrom(_, _, _)
SplitPropsFrom(content, i, S) ==
  IF i > Len(content)
  THEN IF trim(S.current) # << >> THEN Append(S.props, trim(S.current)) ELSE S.props
  ELSE
    LET char == content[i]
        keep(T) == SplitPropsFrom(content, i + 1, [T EXCEPT !.current = Append(@, char)])
    IN IF ~S.inString /\ char \in {"\"", "'"}
       THEN keep([S EXCEPT !.inString = TRUE, !.stringChar = char])
       ELSE IF S.inString /\ char = S.stringChar /\ (i = 1 \/ content[i - 1] # "\\")
       THEN keep([S EXCEPT !.inString = FALSE])
       ELSE IF S.inString THEN keep(S)
       ELSE IF char = "{" THEN keep([S EXCEPT !.braceCount = @ + 1])
       ELSE IF char = "}" THEN keep([S EXCEPT !.braceCount = @ - 1])
       ELSE IF char \in {";", ","} /\ S.braceCount = 0
       THEN SplitPropsFrom(content, i + 1,
              [S EXCEPT !.props = IF trim(S.current) # << >>
                                  THEN Append(@, trim(S.current)) ELSE @,
                        !.current = << >>])
       ELSE keep(S)

splitObjectProperties(content) ==
  SplitPropsFrom(content, 1, [props |-> << >>, current |-> << >>, braceCount |-> 0,
                              inString |-> FALSE, stringChar |-> ""])

\* the schemas
Basic(t) == [kind |-> t]

Binary == [kind |-> "string", format |-> "binary"]

AnySchema == [kind |-> "any"]

NullSchema == [kind |-> "null"]

ArrayOf(items) == [kind |-> "array", items |-> items]

OneOf(schemas) == [kind |-> "oneOf", oneOf |-> schemas]

ObjectOf(properties, required) ==
  [kind |-> "object", properties |-> properties, required |-> required]

\* { type: "object", description: `Custom type: ${type}` }
Opaque(type) == [kind |-> "custom", description |-> type]

\* one property of an object type: the text before the first colon without
\* its `?`, whether it ends with `?`, and the text after the colon
PropKey(prop) ==
  LET rawKey == trim(SubSeq(prop, 1, indexOf(prop, ":") - 1))
  IN IF endsWith(rawKey, <<"?">>) THEN trim(SubSeq(rawKey, 1, Len(rawKey) - 1))
     ELSE rawKey

PropOptional(prop) == endsWith(trim(SubSeq(prop, 1, indexOf(prop, ":") - 1)), <<"?">>)

PropValueType(prop) == trim(SubSeq(prop, indexOf(prop, ":") + 1, Len(prop)))

\* colonIndex > 0, counted from 0
HasKey(prop) == indexOf(prop, ":") > 1

\* the array `required` after props.forEach, from property i on
RECURSIVE RequiredFrom(_, _)
RequiredFrom(props, i) ==
  IF i > Len(props) THEN << >>
  ELSE (IF HasKey(props[i]) /\ ~PropOptional(props[i])
        THEN <<PropKey(props[i])>> ELSE << >>)
       \o RequiredFrom(props, i + 1)

\* the property that sets properties[key] last
LastWithKey(props, key) ==
  CHOOSE i \in DOMAIN props :
    /\ HasKey(props[i]) /\ PropKey(props[i]) = key
    /\ \A j \in DOMAIN props :
         (HasKey(props[j]) /\ PropKey(props[j]) = key) => j <= i

RECURSIVE parseTypeToSchema(_)
parseTypeToSchema(typeStr) ==
  LET type == trim(typeStr)
  IN IF type \in {<<"string">>, <<"number">>, <<"boolean">>} THEN Basic(type[1])
     ELSE IF type \in {<<"any">>, <<"unknown">>} THEN AnySchema
     ELSE IF type = <<"void">> THEN NullSchema
     ELSE IF type \in {<<"File">>, <<"Blob">>} THEN Binary
     ELSE IF type = <<"FormData">> THEN Basic("object")
     ELSE IF endsWith(type, <<"[", "]">>)
          THEN ArrayOf(parseTypeToSchema(SubSeq(type, 1, Len(type) - 2)))
     ELSE IF GenericArgument(type, "Array") # << >>
          THEN ArrayOf(parseTypeToSchema(GenericArgument(type, "Array")))
     ELSE IF GenericArgument(type, "Promise") # << >>
          THEN parseTypeToSchema(GenericArgument(type, "Promise"))
     ELSE IF includes(type, "|")
          THEN LET unionTypes == split(type, "|")
               IN OneOf([k \in DOMAIN unionTypes |-> parseTypeToSchema(unionTypes[k])])
     ELSE IF Len(type) >= 1 /\ type[1] = "{" /\ type[Len(type)] = "}"
          THEN LET content == trim(SubSeq(type, 2, Len(type) - 1))
                   props == splitObjectProperties(content)
                   keys == {PropKey(props[i]) : i \in {i \in DOMAIN props : HasKey(props[i])}}
               IN ObjectOf([key \in keys |->
                              parseTypeToSchema(PropValueType(props[LastWithKey(props, key)]))],
                           RequiredFrom(props, 1))
     ELSE Opaque(type)

(* --------------------------- specification ----------------------------- *)

\* mtime of the files that were written before the process started
OldMtime == StartTime - StabilityThreshold

File(text) == [text |-> text, mtime |-> OldMtime, visited |-> Extract(text)]

\* the backend trees the generator is started on
InitialTrees ==
  { Empty,
    [s \in {UsersTs} |-> File(OneFunc)],
    [s \in Sources |-> File(IF s = UsersTs THEN TwoFuncs
                            ELSE IF s = ContactTs THEN OneFunc ELSE NoFuncs)] }

InitConfigured(edits, calls, failing, cap) ==
  /\ src \in InitialTrees
  /\ ev = [s \in Sources |-> "none"]
  /\ faulty = failing
  /\ out = Empty
  /\ generatedFiles = Empty
  /\ backendToGenerated = Empty
  /\ fileCache = Empty
  /\ deletedFiles = {}
  /\ changedFiles = {}
  /\ lastFullScan = 0
  /\ isProcessing = FALSE
  /\ pc = [i \in ScanIds |-> "idle"]
  /\ loc = [i \in ScanIds |-> IdleLoc]
  /\ watchTimeout = NoTimer
  /\ timers = {}
  /\ watching = FALSE
  /\ now = StartTime
  /\ maxFilesToProcess = cap
  /\ editsLeft = edits
  /\ ticksLeft = MaxTicks
  /\ apiLeft = calls
  /\ queued = {}
  /\ editedInScan = FALSE
  /\ cleanSinceFull = FALSE
  /\ lastNotify = 0
  /\ burst = {}
  /\ lastCall = "none"
  /\ swept = {}
  /\ steps = << >>

\* the default configuration
InitState(edits, calls, failing) ==
  InitConfigured(edits, calls, failing, DefaultMaxFiles)

InitWith(edits, calls) == InitState(edits, calls, {})

\* no pure function is being called
NoProbe == [fn |-> "none", done |-> FALSE]

\* quickwire --watch
Init == InitWith(MaxEdits, 0) /\ probe = NoProbe

Next ==
  \/ \E i \in ScanIds : RunWatch(i)
  \/ \E s \in Sources : OnAddOrChange(s)
  \/ \E s \in Sources : OnUnlink(s)
  \/ \E i \in ScanIds : TimerFire(i)
  \/ \E i \in ScanIds : ScanResume(i)
  \/ \E i \in ScanIds : ScanFinish(i)
  \/ \E s \in Sources : \E text \in ContentsOf(s) : EditSource(s, text)
  \/ \E s \in Sources : DeleteSource(s)
  \/ \E p \in ManualPaths : \E content \in {MarkedContent, PlainContent} : PlaceFile(p, content)
  \/ Tick

Spec == Init /\ [][Next]_vars

\* quickwire --watch in a process whose own code also calls the exported
\* scanAllBackendFunctions, markFileChanged and markFileDeleted
InitApi == InitWith(MaxApiEdits, MaxApiCalls) /\ probe = NoProbe

NextApi ==
  \/ Next
  \/ \E i \in ScanIds : ApiScan(i)
  \/ \E s \in TsSources : ApiMarkFileChanged(s)
  \/ \E s \in TsSources : ApiMarkFileDeleted(s)

SpecApi == InitApi /\ [][NextApi]_vars

(* ------------------------- corruption recovery ----------------------- *)

\* validateGeneratedFiles: the tracked paths that are missing, those whose
\* checksum differs from the record, and those whose checksum agrees
validateGeneratedFiles ==
  [missing |-> {p \in DOMAIN generatedFiles : p \notin DOMAIN out},
   invalid |-> {p \in DOMAIN generatedFiles \cap DOMAIN out :
                  Checksum(out[p]) # generatedFiles[p].checksum},
   valid |-> {p \in DOMAIN generatedFiles \cap DOMAIN out :
                Checksum(out[p]) = generatedFiles[p].checksum}]

\* addAllBackendFiles(CONFIG.backendDir)
addAllBackendFiles == {s \in DOMAIN src : shouldProcessFile(s)}

\* a call of recoverFromCorruption by the code of the process
ApiRecoverFromCorruption ==
  /\ watching
  /\ apiLeft > 0
  /\ apiLeft' = apiLeft - 1
  /\ IF validateGeneratedFiles.invalid # {} \/ validateGeneratedFiles.missing # {}
     THEN /\ generatedFiles' = Empty
          /\ backendToGenerated' = Empty
          /\ changedFiles' = addAllBackendFiles
          /\ deletedFiles' = {}
          /\ lastFullScan' = 0
          /\ queued' = IF isProcessing THEN queued \cup addAllBackendFiles ELSE queued
          /\ lastCall' = "recovering"
     ELSE /\ lastCall' = IF lastCall = "recovering" THEN lastCall ELSE "valid"
          /\ UNCHANGED <<generatedFiles, backendToGenerated, changedFiles,
                         deletedFiles, lastFullScan, queued>>
  /\ UNCHANGED <<src, ev, faulty, out, fileCache, isProcessing, pc, loc,
                 watchTimeout, timers, watching, now, maxFilesToProcess, probe,
                 editsLeft, ticksLeft, editedInScan, cleanSinceFull, lastNotify,
                 burst, swept, steps>>

\* somebody rewrites or deletes a generated file
Tamper(p, remove) ==
  /\ watching
  /\ editsLeft > 0
  /\ p \in DOMAIN out \cap DOMAIN generatedFiles
  /\ out' = IF remove THEN Del(out, {p}) ELSE Upd(out, p, PlainContent)
  /\ editsLeft' = editsLeft - 1
  /\ UNCHANGED <<src, ev, faulty, generatedFiles, backendToGenerated,
                 fileCache, deletedFiles, changedFiles, lastFullScan,
                 isProcessing, pc, loc, watchTimeout, timers, watching, now,
                 maxFilesToProcess, probe, ticksLeft, apiLeft, queued, editedInScan,
                 cleanSinceFull, lastNotify, burst, lastCall, swept, steps>>

\* quickwire --watch in a process whose own code also calls
\* recoverFromCorruption and scanAllBackendFunctions
InitRecover == InitWith(MaxApiEdits, MaxRecoverCalls) /\ probe = NoProbe

NextRecover ==
  \/ Next
  \/ \E i \in ScanIds : ApiScan(i)
  \/ ApiRecoverFromCorruption
  \/ \E p \in DOMAIN out : \E remove \in BOOLEAN : Tamper(p, remove)

SpecRecover == InitRecover /\ [][NextRecover]_vars

(* ------------------------ file system failures ----------------------- *)

\* the failures a run starts with: none, an unwritable route handler, an
\* unwritable client module, an unreadable source file
FaultSets ==
  { {}, {ApiFilePath(UsersTs, "getUser")}, {QuickwireFilePath(UsersTs)}, {UsersTs} }

\* the cause of the failures is removed
Repair ==
  /\ faulty # {}
  /\ faulty' = {}
  /\ UNCHANGED <<src, ev, out, generatedFiles, backendToGenerated, fileCache,
                 deletedFiles, changedFiles, lastFullScan, isProcessing, pc,
                 loc, watchTimeout, timers, watching, now, maxFilesToProcess,
                 probe, editsLeft, ticksLeft, apiLeft, queued, editedInScan,
                 cleanSinceFull, lastNotify, burst, lastCall, swept, steps>>

\* the failures that arise while the generator runs: the disk fills up, and
\* the client module of users.ts can no longer be written
LateFaultSets == { {QuickwireFilePath(UsersTs)} }

\* a failure arises while the generator runs
Break(failing) ==
  /\ watching
  /\ faulty = {}
  /\ failing # {}
  /\ faulty' = failing
  /\ UNCHANGED <<src, ev, out, generatedFiles, backendToGenerated, fileCache,
                 deletedFiles, changedFiles, lastFullScan, isProcessing, pc,
                 loc, watchTimeout, timers, watching, now, maxFilesToProcess,
                 probe, editsLeft, ticksLeft, apiLeft, queued, editedInScan,
                 cleanSinceFull, lastNotify, burst, lastCall, swept, steps>>

\* quickwire --watch on a file system where some calls fail
InitFault ==
  /\ \E failing \in FaultSets : InitState(MaxFaultEdits, 0, failing)
  /\ probe = NoProbe

NextFault ==
  \/ Next
  \/ Repair
  \/ \E failing \in LateFaultSets : Break(failing)

SpecFault == InitFault /\ [][NextFault]_vars

\* the call i of scanAllBackendFunctions goes on after `await walk(...)`:
\* the step ScanResume(i) or ScanFinish(i), told by the position of the call
Continue(i) ==
  /\ pc[i] # "idle"
  /\ pc' = [pc EXCEPT ![i] = IF pc[i] = "walk" THEN "post" ELSE "idle"]

\* The event loop resumes a suspended call: the continuation of an await is
\* a queued microtask, which runs before any timer or watcher callback.
NextLive ==
  \/ Next
  \/ Repair

SpecLive ==
  /\ InitFault
  /\ [][NextLive]_vars
  /\ \A i \in ScanIds : WF_pc(Continue(i))

(* ------------------- calls of the pure functions ----------------------- *)

\* every variable but probe
machine == <<src, ev, faulty, out, generatedFiles, backendToGenerated,
             fileCache, deletedFiles, changedFiles, lastFullScan, isProcessing,
             pc, loc, watchTimeout, timers, watching, now, maxFilesToProcess,
             editsLeft, ticksLeft, apiLeft, queued, editedInScan,
             cleanSinceFull, lastNotify, burst, lastCall, swept, steps>>

ParamNames == {"id", "filter"}

Params == [name : ParamNames, type : {StringType, ObjectType}, optional : BOOLEAN]

DistinctNames(ps) == \A i, j \in DOMAIN ps : i # j => ps[i].name # ps[j].name

ParamLists ==
  UNION {{ps \in [1..n -> Params] : DistinctNames(ps)} : n \in 0..MaxParams}

\* what a caller may pass for a parameter of the given type
ArgsFor(param) ==
  IF isObjectDestructured(param)
  THEN {Undefined, [kind |-> "object", keys |-> {"id"}]}
  ELSE {Undefined, [kind |-> "string", keys |-> {}]}

ArgLists(ps) == {as \in [DOMAIN ps -> UNION {ArgsFor(ps[i]) : i \in DOMAIN ps}] :
                   \A i \in DOMAIN ps : as[i] \in ArgsFor(ps[i])}

\* calls of the stub of a GET or DELETE function
QueryInputs ==
  UNION {{[fn |-> "query", done |-> FALSE,
           func |-> [parameters |-> ps, httpMethod |-> m], args |-> as,
           written |-> {}, read |-> {}, call |-> << >>] : as \in ArgLists(ps)} :
         <<ps, m>> \in ParamLists \X {"GET", "DELETE"}}

\* the stub builds its query string, the handler reads it
CallStub ==
  /\ probe.fn = "query"
  /\ ~probe.done
  /\ probe' = [probe EXCEPT !.done = TRUE,
                            !.written = StubQueryKeys(probe.func, probe.args),
                            !.read = HandlerQueryKeys(probe.func),
                            !.call = HandlerCallArgs(probe.func,
                                       StubQueryKeys(probe.func, probe.args))]
  /\ UNCHANGED machine

AllPrefixes == UNION {httpMethods[i].prefixes : i \in DOMAIN httpMethods}

\* function names: every configured prefix followed by a capital, the
\* names of the examples, names with capitals in the prefix, names that
\* match no prefix, the empty name
DetectNames ==
  {prefix \o <<"X">> : prefix \in AllPrefixes}
  \cup { <<"g","e","t","U","s","e","r">>,
         <<"c","r","e","a","t","e","U","s","e","r">>,
         <<"u","p","d","a","t","e","U","s","e","r">>,
         <<"p","a","t","c","h","U","s","e","r">>,
         <<"c","a","n","c","e","l","O","r","d","e","r">>,
         <<"G","e","t","U","s","e","r">>,
         <<"D","E","L","E","T","E","a","l","l">>,
         <<"d","o","I","t">>,
         <<"g","e">>,
         << >> }

DetectInputs ==
  {[fn |-> "detectHttpMethod", done |-> FALSE, functionName |-> n,
    parameters |-> ps, method |-> ""] :
     <<n, ps>> \in DetectNames \X {ps \in ParamLists : Len(ps) <= 1}}

CallDetectHttpMethod ==
  /\ probe.fn = "detectHttpMethod"
  /\ ~probe.done
  /\ probe' = [probe EXCEPT !.done = TRUE,
                            !.method = detectHttpMethod(probe.functionName,
                                                        probe.parameters)]
  /\ UNCHANGED machine

(* safeWriteFile, one file system call at a time.  probe.files holds the
   target path and the temporary path, probe.record the entry of the target
   in generatedFiles; probe.fault names the call that fails, if one does. *)

NoFile == [exists |-> FALSE, data |-> << >>]

FileOf(data) == [exists |-> TRUE, data |-> data]

NoRecord == [tracked |-> FALSE, sourceFile |-> << >>, checksum |-> <<0, 0>>]

RecordOf(source, data) ==
  [tracked |-> TRUE, sourceFile |-> source, checksum |-> Checksum(data)]

\* a faulty variant of tempPath: the content is written to the target
tempPathInPlace == "target"

\* `${filePath}.tmp`
tempPath == "temp"

\* fs.writeFileSync after n chunks of data have reached the disk
writeFileSync(files, path, data, n) ==
  [files EXCEPT ![path] = FileOf(SubSeq(data, 1, n))]

\* fs.renameSync
renameSync(files, from, to) ==
  IF from = to THEN files
  ELSE [files EXCEPT ![to] = files[from], ![from] = NoFile]

\* fs.unlinkSync, guarded by fs.existsSync
unlinkSync(files, path) == [files EXCEPT ![path] = NoFile]

WriteContents ==
  { HandlerCode(UsersTs, [name |-> "getUser", httpMethod |-> "GET"]),
    ClientHeader(UsersTs, StartTime),
    MarkedContent }

OldFiles == {NoFile, FileOf(PlainContent), FileOf(ClientHeader(UsersTs, OldMtime))}

WriteFaults == {"none", "mkdir", "write", "rename"}

WriteInputs ==
  {[fn |-> "safeWriteFile", done |-> FALSE, pc |-> "mkdir",
    files |-> [target |-> old, temp |-> NoFile],
    record |-> IF old.exists /\ tracked THEN RecordOf(UsersTs, old.data) ELSE NoRecord,
    old |-> old,
    oldRecord |-> IF old.exists /\ tracked THEN RecordOf(UsersTs, old.data) ELSE NoRecord,
    content |-> content, fault |-> fault, chunks |-> 0, ret |-> "none"] :
     <<old, tracked, content, fault>> \in OldFiles \X BOOLEAN \X WriteContents \X WriteFaults}

InWrite(at) == probe.fn = "safeWriteFile" /\ ~probe.done /\ probe.pc = at

\* ensureDirectoryExists(dirPath)
WriteEnsureDirectory ==
  /\ InWrite("mkdir")
  /\ probe' = IF probe.fault = "mkdir"
              THEN [probe EXCEPT !.done = TRUE, !.ret = "false"]
              ELSE [probe EXCEPT !.pc = "write"]
  /\ UNCHANGED machine

\* fs.writeFileSync(tempPath, content): one more chunk reaches the disk, or
\* the call throws
WriteTemp ==
  /\ InWrite("write")
  /\ \/ /\ probe.chunks < Len(probe.content)
        /\ probe' = [probe EXCEPT
                       !.chunks = @ + 1,
                       !.files = writeFileSync(@, tempPath, probe.content,
                                               probe.chunks + 1),
                       !.pc = IF probe.chunks + 1 = Len(probe.content)
                                 /\ probe.fault # "write"
                              THEN "rename" ELSE "write"]
     \/ /\ probe.fault = "write"
        /\ probe' = [probe EXCEPT !.pc = "catch"]
  /\ UNCHANGED machine

\* fs.renameSync(tempPath, filePath)
WriteRename ==
  /\ InWrite("rename")
  /\ probe' = IF probe.fault = "rename"
              THEN [probe EXCEPT !.pc = "catch"]
              ELSE [probe EXCEPT !.files = renameSync(@, tempPath, "target"),
                                 !.pc = "track"]
  /\ UNCHANGED machine

\* generatedFiles.set(filePath, metadata); return true
WriteTrack ==
  /\ InWrite("track")
  /\ probe' = [probe EXCEPT
                 !.record = RecordOf(UsersTs, probe.files["target"].data),
                 !.done = TRUE, !.ret = "true"]
  /\ UNCHANGED machine

\* the catch block: the temporary file is removed; return false
WriteCatch ==
  /\ InWrite("catch")
  /\ probe' = [probe EXCEPT !.files = unlinkSync(@, tempPath),
                            !.done = TRUE, !.ret = "false"]
  /\ UNCHANGED machine

\* the characters the type expressions are made of
TypeAlphabet == {"A", "B", ":", "|", "{", "}", "[", "]"}

\* { a: A | B }
ObjectWithUnion ==
  <<"{", " ", "a", ":", " ", "A", " ", "|", " ", "B", " ", "}">>

\* A | B[]
UnionWithArray == <<"A", " ", "|", " ", "B", "[", "]">>

NamedTypes ==
  { ObjectWithUnion, UnionWithArray,
    <<"Promise", "<", "string", ">">>,
    <<"Array", "<", "number", ">">>,
    <<"Array", "<", "A">>,
    <<" ", "void", " ">>,
    <<"any">>, <<"File">>, <<"FormData">>,
    <<"{", "a", "?", ":", "string", ";", "b", ":", "{", "c", ":", "File", "}", "}">>,
    <<"{", "a", ":", "'", ";", "'", ",", "b", ":", "boolean", "}">>,
    <<"{", "a", ":", "A", "[", "]">> }

Types == (UNION {[1..n -> TypeAlphabet] : n \in 0..MaxTypeLen}) \cup NamedTypes

TypeInputs ==
  {[fn |-> "parseTypeToSchema", done |-> FALSE, typeStr |-> t,
    schema |-> Basic("none")] : t \in Types}

CallParseTypeToSchema ==
  /\ probe.fn = "parseTypeToSchema"
  /\ ~probe.done
  /\ probe' = [probe EXCEPT !.done = TRUE,
                            !.schema = parseTypeToSchema(probe.typeStr)]
  /\ UNCHANGED machine

(* shouldProcessFile on spelled-out paths.  A path is the sequence of its
   characters; the file names of the scans above are among the inputs, and
   none of them is excluded. *)

\* process.cwd()
Cwd == <<"/","a","p","p">>

\* CONFIG.excludePatterns
excludePatterns ==
  << <<"*",".","t","e","s","t",".","t","s">>,
     <<"*",".","s","p","e","c",".","t","s">>,
     <<"*",".","d",".","t","s">>,
     <<"n","o","d","e","_","m","o","d","u","l","e","s">>,
     <<".","g","i","t">> >>

\* CONFIG.supportedExtensions
supportedExtensions == {<<".","t","s">>, <<".","j","s">>}

\* str.lastIndexOf(ch), counted from 1; 0 when ch does not occur
lastIndexOf(str, ch) ==
  IF includes(str, ch) THEN CHOOSE i \in DOMAIN str :
                              str[i] = ch /\ \A j \in (i + 1)..Len(str) : str[j] # ch
  ELSE 0

\* path.basename
basename(filePath) == SubSeq(filePath, lastIndexOf(filePath, "/") + 1, Len(filePath))

\* path.extname: from the last dot of the base name on, nothing when there
\* is no dot or the only dot comes first
extname(filePath) ==
  IF lastIndexOf(basename(filePath), ".") <= 1 THEN << >>
  ELSE SubSeq(basename(filePath), lastIndexOf(basename(filePath), "."),
              Len(basename(filePath)))

\* path.relative(process.cwd(), filePath) for a path below the working
\* directory
relative(filePath) == SubSeq(filePath, Len(Cwd) + 2, Len(filePath))

\* str.replace(ch, by) with a string pattern: the first occurrence only
replace(str, ch, by) ==
  IF ~includes(str, ch) THEN str
  ELSE SubSeq(str, 1, indexOf(str, ch) - 1) \o by
       \o SubSeq(str, indexOf(str, ch) + 1, Len(str))

\* str.includes(part) for a string part
includesString(str, part) ==
  \E i \in 1..(Len(str) - Len(part) + 1) : SubSeq(str, i, i + Len(part) - 1) = part

\* new RegExp(source) for a source of letters, dots and stars: one item per
\* character, a dot standing for any character, an item followed by a star
\* repeated any number of times
RECURSIVE RegExpFrom(_, _)
RegExpFrom(source, i) ==
  IF i > Len(source) THEN << >>
  ELSE IF i < Len(source) /\ source[i + 1] = "*"
       THEN <<[c |-> source[i], any |-> source[i] = ".", star |-> TRUE]>>
            \o RegExpFrom(source, i + 2)
       ELSE <<[c |-> source[i], any |-> source[i] = ".", star |-> FALSE]>>
            \o RegExpFrom(source, i + 1)

ItemTakes(item, ch) == item.any \/ item.c = ch

\* the items of re from i on match str from position j on; up to the end of
\* str when whole is set
RECURSIVE MatchHere(_, _, _, _, _)
MatchHere(re, i, str, j, whole) ==
  IF i > Len(re) THEN (~whole \/ j = Len(str) + 1)
  ELSE IF re[i].star
       THEN \E k \in j..(Len(str) + 1) :
              /\ \A m \in j..(k - 1) : ItemTakes(re[i], str[m])
              /\ MatchHere(re, i + 1, str, k, whole)
       ELSE /\ j <= Len(str)
            /\ ItemTakes(re[i], str[j])
            /\ MatchHere(re, i + 1, str, j + 1, whole)

\* str.match(source) # null: the string is compiled to a regular
\* expression, which may match anywhere in str
match(str, source) ==
  \E j \in 1..(Len(str) + 1) : MatchHere(RegExpFrom(source, 1), 1, str, j, FALSE)

\* the test of the loop of shouldProcessFile on one pattern
ExcludedBy(pattern, fileName, relativePath) ==
  \/ match(fileName, replace(pattern, "*", <<".", "*">>))
  \/ includesString(relativePath, replace(pattern, "*", << >>))

\* shouldProcessFile(filePath, CONFIG) of utils.ts
shouldProcessFilePath(filePath) ==
  /\ extname(filePath) \in supportedExtensions
  /\ \A n \in DOMAIN excludePatterns :
       ~ExcludedBy(excludePatterns[n], basename(filePath), relative(filePath))

\* the directories and file names of the paths handed to shouldProcessFile
FilterDirs == {<<"/","a","p","p","/","b","a","c","k","e","n","d","/">>, <<"/","a","p","p","/","b","a","c","k","e","n","d","/","a","d","m","i","n","/">>}

FilterNames ==
  { <<"u","s","e","r","s",".","t","s">>,
    <<"c","o","n","t","a","c","t",".","t","s">>,
    <<"n","o","t","e","s",".","m","d">>,
    <<"u","p","l","o","a","d",".","t","s">>,
    <<"l","a","t","e","s","t",".","t","s">>,
    <<"d","i","g","i","t",".","t","s">>,
    <<"u","s","e","r",".","t","e","s","t",".","t","s">>,
    <<"u","s","e","r",".","s","p","e","c",".","t","s">>,
    <<"t","y","p","e","s",".","d",".","t","s">>,
    <<"m","a","i","n",".","j","s">> }

FilterInputs ==
  {[fn |-> "shouldProcessFile", done |-> FALSE, filePath |-> d \o n, ret |-> FALSE] :
     <<d, n>> \in FilterDirs \X FilterNames}

CallShouldProcessFile ==
  /\ probe.fn = "shouldProcessFile"
  /\ ~probe.done
  /\ probe' = [probe EXCEPT !.done = TRUE,
                            !.ret = shouldProcessFilePath(probe.filePath)]
  /\ UNCHANGED machine

InitPure ==
  /\ InitWith(0, 0)
  /\ src = Empty
  /\ probe \in QueryInputs \cup DetectInputs \cup WriteInputs \cup TypeInputs
               \cup FilterInputs

NextPure ==
  \/ CallStub
  \/ CallDetectHttpMethod
  \/ WriteEnsureDirectory
  \/ WriteTemp
  \/ WriteRename
  \/ WriteTrack
  \/ WriteCatch
  \/ CallParseTypeToSchema
  \/ CallShouldProcessFile

SpecPure == InitPure /\ [][NextPure]_vars

(* ---------------------- a configured file limit ------------------------ *)

MaxCap == 2

MaxCapEdits == 1

\* quickwire --watch with performance.maxFilesToProcess set in
\* quickwire.config.json
InitCap ==
  /\ \E cap \in 1..MaxCap : InitConfigured(MaxCapEdits, 0, {}, cap)
  /\ probe = NoProbe

SpecCap == InitCap /\ [][Next]_vars

(* ------------------------------- claims -------------------------------- *)

\* the step in which a scan that was started runs to its end
ScanEnds(i) == pc[i] = "post" /\ pc'[i] = "idle"

\* the step in which a call of scanAllBackendFunctions starts a scan
ScanStarts(i) == pc[i] = "idle" /\ pc'[i] = "walk"

StubsFor(content, f) ==
  {j \in DOMAIN content : content[j].k = "export const" /\ content[j].f = f}

IsHandlerFor(content, f) ==
  \E j \in DOMAIN content : content[j].k = "import" /\ content[j].f = f

Covered(s, f) ==
  /\ ApiFilePath(s, f) \in DOMAIN out
  /\ IsHandlerFor(out[ApiFilePath(s, f)], f)
  /\ QuickwireFilePath(s) \in DOMAIN out
  /\ Cardinality(StubsFor(out[QuickwireFilePath(s)], f)) = 1

Coverage ==
  \A s \in DOMAIN src : shouldProcessFile(s) =>
    \A k \in DOMAIN src[s].text : Covered(s, src[s].text[k])

\* C1: when a scan ends during which no source was changed, every function
\* exported by a source file that passes the file filter has exactly one
\* route handler and exactly one stub in the client module of its file.
C1_Coverage ==
  [][\A i \in ScanIds : (ScanEnds(i) /\ ~editedInScan) => Coverage']_vars

\* C2: when a scan ends during which nothing was edited, no artifact of a
\* deleted source (its route handlers, its client module) exists any more
\* and none has a record; the unlink notification was delivered before the
\* scan began.
C2_DeletionPropagates ==
  [][\A i \in ScanIds : (ScanEnds(i) /\ ~editedInScan) =>
       \A s \in TsSources :
         (s \notin DOMAIN src /\ ev[s] = "none") =>
           \A p \in ArtifactsOf(s) :
             p \notin DOMAIN out' /\ p \notin DOMAIN generatedFiles']_vars

\* the paths generateDocumentationFiles rewrites at the end of a scan
DocPaths == {DocsRouteFile, SpecRouteFile}

\* C3 as stated: at the end of a scan a file of the output trees is deleted
\* exactly when it bears the marker and has no record, and a file without
\* the marker is left as it is.
C3_OrphanIffMarker ==
  [][\A i \in ScanIds : ScanEnds(i) =>
       \A p \in DOMAIN out :
         /\ (p \notin DOMAIN out') <=>
              (HasMarker(out[p]) /\ p \notin DOMAIN generatedFiles')
         /\ (~HasMarker(out[p]) /\ p \notin DocPaths) =>
              (p \in DOMAIN out' /\ out'[p] = out[p])]_vars

\* C3 amended: at the end of a scan that was not skipped for lack of
\* changes, a file of the output trees is deleted exactly when its name ends
\* in .ts or .js, it bears the marker and it has no record; a file without
\* the marker that the generator does not write is left as it is.
C3_OrphanCleanup ==
  [][\A i \in ScanIds : ScanEnds(i) =>
       \A p \in DOMAIN out :
         /\ (p \notin DOMAIN out') <=>
              (IsTsOrJs(p) /\ HasMarker(out[p]) /\ p \notin DOMAIN generatedFiles')
         /\ (~HasMarker(out[p]) /\ p \notin DocPaths) =>
              (p \in DOMAIN out' /\ out'[p] = out[p])]_vars

\* a marker-bearing file put into the client tree was swept, while
\* hand-written files of the output trees are still there
C3_Witness ==
  /\ OrphanTs \in swept
  /\ \E p \in DOMAIN out : ~HasMarker(out[p]) /\ p \notin DOMAIN generatedFiles

\* C4: a source file marked changed while a scan is in progress stays in
\* the dirty set until a scan hands it to processBackendFile.
C4_QueuedChangeKept == \A s \in queued \cap DOMAIN src : s \in changedFiles

ActiveScans == {i \in ScanIds : pc[i] # "idle"}

\* C5: at most one scan is in progress, and a call made while a scan runs
\* changes neither the tracking maps, nor the dirty sets, nor any file.
C5_OneScanAtATime ==
  /\ [](Cardinality(ActiveScans) <= 1)
  /\ [][\A i \in ScanIds : (isProcessing /\ ApiScan(i)) =>
          UNCHANGED <<out, generatedFiles, backendToGenerated, fileCache,
                      changedFiles, deletedFiles, lastFullScan, isProcessing,
                      pc, loc>>]_vars

\* a call was refused while a scan was suspended between two stretches
C5_Witness == lastCall = "refused" /\ isProcessing /\ Cardinality(ActiveScans) = 1

BurstFiles == {b[1] : b \in burst}

\* C6 as stated: at most one debounce timer is pending; it fires one
\* debounce interval after the last notification, leaves no timer behind,
\* and every file notified in the burst is then in the dirty set.
C6_DebounceAllFiles ==
  /\ [](Cardinality(timers) <= 1)
  /\ [][\A i \in ScanIds : TimerFire(i) =>
          /\ now = lastNotify + WatchDebounceMs
          /\ timers' = {}
          /\ lastCall' # "refused"
          /\ BurstFiles \subseteq changedFiles]_vars

\* C6 amended: the same, the dirty set holding every file notified as added
\* or changed and every file notified as deleted that passes the file filter.
C6_Debounce ==
  /\ [](Cardinality(timers) <= 1)
  /\ [][\A i \in ScanIds : TimerFire(i) =>
          /\ now = lastNotify + WatchDebounceMs
          /\ timers' = {}
          /\ lastCall' # "refused"
          /\ \A b \in burst :
               (b[2] # "unlink" \/ shouldProcessFile(b[1])) => b[1] \in changedFiles]_vars

\* two notifications of one burst wait on a single timer
C6_Witness ==
  /\ Cardinality(BurstFiles) >= 2
  /\ Cardinality(timers) = 1
  /\ \A tm \in timers : tm.due = lastNotify + WatchDebounceMs

\* C7: the extraction that ends a scan returns the stored descriptors of a
\* source exactly when an entry exists whose mtime is the file's current
\* mtime, and otherwise extracts them from the file anew; the documentation
\* lists what it returned.
C7_CacheValidity ==
  [][\A i \in ScanIds : ScanEnds(i) =>
       \A s \in TsSources \cap DOMAIN src :
         LET hit == s \in DOMAIN fileCache /\ fileCache[s].mtime = src[s].mtime
             returned == IF hit THEN fileCache[s].exports ELSE Extract(src[s].text)
         IN /\ s \in DOMAIN fileCache'
            /\ fileCache'[s].exports = returned
            /\ fileCache'[s].mtime = src[s].mtime
            /\ \A k \in DOMAIN returned :
                 \E j \in DOMAIN out'[DocsRouteFile] :
                   /\ out'[DocsRouteFile][j].k = "path"
                   /\ out'[DocsRouteFile][j].a = <<"api">> \o RouteOf(s, returned[k].name)]_vars

ClientNames(s) ==
  LET content == out[QuickwireFilePath(s)]
  IN {content[j].f : j \in {j \in DOMAIN content : content[j].k = "export const"}}

ExportNames(exports) == {exports[k].name : k \in DOMAIN exports}

\* a source was changed after its client module was written; the extraction
\* at the end of the scan found the entry out of date and stored the new
\* descriptors
C7_Witness ==
  \E s \in TsSources \cap DOMAIN src \cap DOMAIN fileCache :
    /\ AllIdle
    /\ fileCache[s].mtime = src[s].mtime
    /\ fileCache[s].mtime # OldMtime
    /\ fileCache[s].exports = Extract(src[s].text)
    /\ QuickwireFilePath(s) \in DOMAIN out
    /\ ClientNames(s) # ExportNames(fileCache[s].exports)

\* C8: right after a change or delete notification of a file is handled
\* (watcher callback, markFileChanged, markFileDeleted) the cache holds no
\* entry for the file.
C8_NotificationInvalidates ==
  [][\A s \in Sources :
       (OnAddOrChange(s) \/ OnUnlink(s) \/ ApiMarkFileChanged(s) \/ ApiMarkFileDeleted(s))
         => s \notin DOMAIN fileCache']_vars

\* a source that was processed (and cached) before is dirty, its
\* notification is handled, and its entry is gone
C8_Witness ==
  \E s \in TsSources :
    /\ s \in changedFiles
    /\ s \notin DOMAIN fileCache
    /\ QuickwireFilePath(s) \in DOMAIN generatedFiles
    /\ timers # {}

\* C9: a scan that starts is a full regeneration exactly when the cache is
\* empty, or the staleness window has elapsed since the last full scan, or
\* the dirty files exceed half of maxFilesToProcess.
C9_FullRegenRule ==
  [][\A i \in ScanIds : ScanStarts(i) =>
       (loc'[i].full <=>
          \/ DOMAIN fileCache = {}
          \/ now - lastFullScan > CacheExpiryMs
          \/ 2 * Cardinality(changedFiles) > maxFilesToProcess)]_vars

GeneratorPaths == (UNION {ArtifactsOf(s) : s \in TsSources}) \cup DocPaths

ScanSteps(i) == pc'[i] # pc[i]

FullScan(i) == IF pc[i] = "idle" THEN loc'[i].full ELSE loc[i].full

\* C10: a full regeneration made when no source has changed since the last
\* full regeneration ended leaves every artifact as it was.
C10_Idempotent ==
  [][\A i \in ScanIds : (ScanSteps(i) /\ FullScan(i) /\ cleanSinceFull) =>
       \A p \in GeneratorPaths \cap DOMAIN out :
         p \in DOMAIN out' /\ out'[p] = out[p]]_vars

\* the URL under which the framework serves the handler file p: /api and
\* the directory of the file below CONFIG.apiDir
ServedUrl(p) == <<"api">> \o SubSeq(p, Len(ApiDir) + 1, Len(p) - 1)

\* the verb a handler file exports
ServedMethods(content) ==
  {content[j].m : j \in {j \in DOMAIN content : content[j].k = "export async function"}}

\* the handler files in the tree o that import function f of source s
HandlersOf(o, s, f) ==
  {p \in DOMAIN o : \E j \in DOMAIN o[p] :
     o[p][j].k = "import" /\ o[p][j].a = RelativeNoExt(s) /\ o[p][j].f = f}

StubLines(o, s, f) ==
  IF QuickwireFilePath(s) \in DOMAIN o
  THEN {o[QuickwireFilePath(s)][j] : j \in StubsFor(o[QuickwireFilePath(s)], f)}
  ELSE {}

DocEntries(o) ==
  IF DocsRouteFile \in DOMAIN o
  THEN {o[DocsRouteFile][j] : j \in {j \in DOMAIN o[DocsRouteFile] : o[DocsRouteFile][j].k = "path"}}
  ELSE {}

\* stub, handler and documentation of function f of source s agree in o
Addressed(o, s, f) ==
  \A stub \in StubLines(o, s, f) :
    /\ \A p \in HandlersOf(o, s, f) :
         ServedUrl(p) = stub.a /\ ServedMethods(o[p]) = {stub.m}
    /\ \E d \in DocEntries(o) : d.a = stub.a /\ d.m = stub.m /\ d.f = f

C12_QueryKeysAgree ==
  (probe.fn = "query" /\ probe.done
     /\ \A i \in DOMAIN probe.args : probe.args[i] # Undefined) =>
    /\ probe.written = probe.read
    /\ probe.read = {probe.func.parameters[i].name : i \in DOMAIN probe.func.parameters}
    /\ Cardinality(probe.read) = Len(probe.func.parameters)
    /\ \A i \in DOMAIN probe.call : probe.call[i] # "null"

VerbOrder == <<"GET", "POST", "PUT", "PATCH", "DELETE">>

\* the prefix table of a verb
TableOf(verb) ==
  UNION {httpMethods[i].prefixes : i \in {i \in DOMAIN httpMethods : httpMethods[i].method = verb}}

\* the places in VerbOrder of the verbs whose table holds a prefix of name
MatchingVerbs(name) ==
  {v \in DOMAIN VerbOrder :
     \E prefix \in TableOf(VerbOrder[v]) :
       /\ Len(prefix) <= Len(name)
       /\ \A k \in DOMAIN prefix : name[k] = prefix[k]}

C15_NoArtifactOnFailedWrite ==
  [][\A i \in ScanIds : (ScanEnds(i) /\ ~editedInScan) =>
       \A s \in TsSources \cap DOMAIN src : \A k \in DOMAIN src[s].text :
         (/\ ApiFilePath(s, src[s].text[k]) \in faulty
          /\ ApiFilePath(s, src[s].text[k]) \notin DOMAIN out') =>
           (QuickwireFilePath(s) \in DOMAIN out' =>
              StubsFor(out'[QuickwireFilePath(s)], src[s].text[k]) = {})]_vars

\* the source file the failures of FaultSets are confined to
FaultySource == UsersTs

\* every function of s has a tracked route handler and a stub in the
\* tracked client module of s
Written(s) ==
  /\ QuickwireFilePath(s) \in DOMAIN out \cap DOMAIN generatedFiles
  /\ \A k \in DOMAIN src[s].text :
       /\ ApiFilePath(s, src[s].text[k]) \in DOMAIN out \cap DOMAIN generatedFiles
       /\ IsHandlerFor(out[ApiFilePath(s, src[s].text[k])], src[s].text[k])
       /\ StubsFor(out[QuickwireFilePath(s)], src[s].text[k]) # {}

C17_Recovery ==
  [][/\ (lastCall = "recovering" /\ lastCall' # "recovering") =>
          \/ lastCall' = "refused"
          \/ lastCall' = "started" /\ \E i \in ScanIds : pc[i] = "idle" /\ loc'[i].full
     /\ (/\ apiLeft' # apiLeft
         /\ lastCall' \in {"valid", "recovering"}
         /\ validateGeneratedFiles.missing = {}
         /\ validateGeneratedFiles.invalid = {}) =>
          UNCHANGED <<changedFiles, deletedFiles, generatedFiles, backendToGenerated,
                      out, lastFullScan>>]_vars

\* C18: every file that safeWriteFile wrote, that is every file on disk
\* whose content is the one its record in generatedFiles was made from,
\* contains the marker that the orphan cleanup tests for.
C18_WrittenFilesMarked ==
  \A p \in DOMAIN generatedFiles \cap DOMAIN out :
    Checksum(out[p]) = generatedFiles[p].checksum => HasMarker(out[p])

\* the nesting depth of position i of a type expression in braces and
\* brackets
Depth(str, i) ==
  Cardinality({j \in 1..(i - 1) : str[j] \in {"{", "["}})
  - Cardinality({j \in 1..(i - 1) : str[j] \in {"}", "]"}})

TopLevelBar(str) == \E i \in DOMAIN str : str[i] = "|" /\ Depth(str, i) = 0

\* some closing character has no opening one before it, or some opening
\* character is never closed
Unmatched(str, open, close) ==
  \/ \E i \in 0..Len(str) :
       Cardinality({j \in 1..i : str[j] = close})
         > Cardinality({j \in 1..i : str[j] = open})
  \/ Cardinality({j \in DOMAIN str : str[j] = open})
       # Cardinality({j \in DOMAIN str : str[j] = close})

Unbalanced(str) ==
  \/ Unmatched(str, "{", "}")
  \/ Unmatched(str, "[", "]")
  \/ Unmatched(str, "<", ">")

\* C19: for an expression whose braces and brackets are balanced,
\* parseTypeToSchema returns a union only when a `|` stands outside them; `{ a: A | B }` gives an object whose
\* property a is the union of A and B, and `A | B[]` gives the union of A
\* and an array of B.
C19_TopLevelUnion ==
  (probe.fn = "parseTypeToSchema" /\ probe.done) =>
    /\ (~Unbalanced(probe.typeStr) /\ probe.schema.kind = "oneOf") =>
         TopLevelBar(probe.typeStr)
    /\ probe.typeStr = ObjectWithUnion =>
         probe.schema = ObjectOf([k \in {<<"a">>} |->
                                    OneOf(<<Opaque(<<"A">>), Opaque(<<"B">>)>>)],
                                 << <<"a">> >>)
    /\ probe.typeStr = UnionWithArray =>
         probe.schema = OneOf(<<Opaque(<<"A">>), ArrayOf(Opaque(<<"B">>))>>)

\* C20: parseTypeToSchema returns a schema for every input, and for the
\* empty string and for an expression with unbalanced braces, brackets or
\* angle brackets the schema is the custom one carrying the expression.
C20_MalformedIsOpaque ==
  (probe.fn = "parseTypeToSchema" /\ probe.done) =>
    /\ probe.schema # Basic("none")
    /\ (trim(probe.typeStr) = << >> \/ Unbalanced(probe.typeStr)) =>
         probe.schema = Opaque(trim(probe.typeStr))

\* C21 as stated: a scan ends having retired the deleted sources, walked
\* the sources, swept the orphans and then rebuilt the documentation, in
\* this order.
C21_SweepBeforeDocs ==
  [][\A i \in ScanIds : ScanEnds(i) =>
       steps' = <<"deletions", "walk", "sweep", "docs">>]_vars

\* C21 amended: a scan ends having retired the deleted sources, walked the
\* sources, rebuilt the documentation and then swept the orphans, in this
\* order.
C21_DocsBeforeSweep ==
  [][\A i \in ScanIds : ScanEnds(i) =>
       steps' = <<"deletions", "walk", "docs", "sweep">>]_vars

\* a scan that wrote the documentation and swept an orphan has ended
C21_Witness ==
  /\ AllIdle
  /\ steps = <<"deletions", "walk", "docs", "sweep">>
  /\ swept # {}
  /\ DocsRouteFile \in DOMAIN out

(* --------------------------- source tracking --------------------------- *)

\* the artifacts whose record names s as their source
RecordedFor(gen, s) == {p \in DOMAIN gen : gen[p].sourceFile = s}

\* processBackendFile returned true for s in the scan that ends: the client
\* module, its last write, was recorded at or after the start of the scan
SucceededIn(i, s) ==
  /\ QuickwireFilePath(s) \in DOMAIN generatedFiles'
  /\ generatedFiles'[QuickwireFilePath(s)].sourceFile = s
  /\ generatedFiles'[QuickwireFilePath(s)].generatedAt >= loc[i].now

\* C22: when a scan ends, backendToGenerated maps every source that
\* processBackendFile handled with success in it to exactly the set of
\* paths whose generatedFiles record names that source as sourceFile.
C22_SourceToArtifacts ==
  [][\A i \in ScanIds : \A s \in Sources :
       ScanEnds(i) /\ SucceededIn(i, s) =>
         /\ s \in DOMAIN backendToGenerated'
         /\ backendToGenerated'[s] = RecordedFor(generatedFiles', s)]_vars

(* -------------------------- withdrawn functions ------------------------ *)

\* the source s exists, passes the filter and does not export f
NotExported(s, f) ==
  /\ s \in DOMAIN src
  /\ shouldProcessFile(s)
  /\ \A k \in DOMAIN src[s].text : src[s].text[k] # f

\* C23: when a scan ends during which no source was changed and before
\* which every change was notified, a function that a source no longer
\* exports has no route handler on disk, no record in generatedFiles, and
\* no stub in the client module of its source.
C23_WithdrawnFunctionRemoved ==
  [][\A i \in ScanIds : \A s \in Sources : \A f \in Funcs :
       ScanEnds(i) /\ ~editedInScan /\ ev[s] = "none" /\ NotExported(s, f) =>
         /\ ApiFilePath(s, f) \notin DOMAIN out'
         /\ ApiFilePath(s, f) \notin DOMAIN generatedFiles'
         /\ QuickwireFilePath(s) \in DOMAIN out' =>
              StubsFor(out'[QuickwireFilePath(s)], f) = {}]_vars

(* ------------------------- exported descriptors ------------------------ *)

\* no two descriptors of the list bear the same name
UniqueNames(functions) ==
  \A j, k \in DOMAIN functions :
    functions[j].name = functions[k].name => j = k

\* C24: the functions list that analyzeModuleExports returned and cached
\* for a module never contains two descriptors with the same name.
C24_UniqueFunctionNames ==
  \A s \in DOMAIN fileCache : UniqueNames(fileCache[s].exports)

(* ------------------------------ file limit ----------------------------- *)

\* the files the scan i has examined so far
Examined(i) == loc[i].processed + loc[i].skipped + loc[i].errors

\* C25: in a scan the number of files examined (processed, skipped and
\* errored together) never exceeds maxFilesToProcess.
C25_ExaminedWithinCap ==
  \A i \in ScanIds : Examined(i) <= maxFilesToProcess

(* ------------------------ artifacts of live sources -------------------- *)

\* the client module of s and the route handlers of the functions s
\* exports, for a source that exists and passes the filter
LiveArtifacts(tree, s) ==
  IF s \in DOMAIN tree /\ shouldProcessFile(s)
  THEN {QuickwireFilePath(s)}
         \cup {ApiFilePath(s, tree[s].text[k]) : k \in DOMAIN tree[s].text}
  ELSE {}

\* C26: no step of a scan removes the client module or a route handler of a
\* source file that exists, passes the file filter and exports the function
\* concerned, also when the write of a client module fails in that scan.
C26_LiveArtifactsKept ==
  [][\A i \in ScanIds : \A s \in Sources :
       ScanSteps(i) =>
         \A p \in LiveArtifacts(src, s) \cap LiveArtifacts(src', s) :
           p \in DOMAIN out => p \in DOMAIN out']_vars

(* --------------------------- record integrity -------------------------- *)

\* C27: once a scan has run to its end and while no scan runs, every record
\* of generatedFiles names a file that is on disk with the checksum of the
\* record: validateGeneratedFiles finds nothing invalid and nothing missing,
\* and its three counts add up to the number of records.
C27_RecordsMatchDisk ==
  (AllIdle /\ steps # << >>) =>
    LET report == validateGeneratedFiles
    IN /\ report.invalid = {}
       /\ report.missing = {}
       /\ Cardinality(report.valid) + Cardinality(report.invalid)
            + Cardinality(report.missing)
          = Cardinality(DOMAIN generatedFiles)

\* a second scan has rewritten files the first had written, its cleanup has
\* removed an orphan, and all its records are valid
C27_Witness ==
  /\ AllIdle
  /\ lastFullScan > StartTime
  /\ swept # {}
  /\ Cardinality(DOMAIN generatedFiles) >= 4
  /\ validateGeneratedFiles.valid = DOMAIN generatedFiles

(* ------------------------------ idle scans ----------------------------- *)

\* C28: a call of scanAllBackendFunctions made while the dirty set and the
\* deleted set are empty and the staleness window has not elapsed changes
\* neither generatedFiles, backendToGenerated, the cache, lastFullScan nor
\* any file on disk.
C28_NothingToDo ==
  [][\A i \in ScanIds :
       (~HasChanges /\ ~CacheExpired /\ ScanCall(i)) =>
         UNCHANGED <<generatedFiles, backendToGenerated, fileCache,
                     lastFullScan, out>>]_vars

\* a scan was requested with nothing to do, after an earlier scan had
\* generated files
C28_Witness ==
  /\ lastCall = "nochange"
  /\ ~HasChanges
  /\ ~CacheExpired
  /\ ~isProcessing
  /\ DOMAIN generatedFiles # {}
  /\ DOMAIN fileCache # {}

(* ------------------------------ busy flag ------------------------------ *)

\* C29: every scan that starts ends, with isProcessing reset to false; the
\* flag is never set while no scan runs, so a request made after a scan has
\* ended is not refused.
C29_BusyFlagReset ==
  /\ \A i \in ScanIds : (pc[i] # "idle") ~> (pc[i] = "idle" /\ ~isProcessing)
  /\ [](AllIdle => ~isProcessing)
  /\ [][\A i \in ScanIds :
          (AllIdle /\ ScanCall(i)) => lastCall' # "refused"]_vars

\* a scan in which a write failed has ended and the next request, with
\* nothing to do, was let through
C29_Witness ==
  /\ AllIdle
  /\ ~isProcessing
  /\ faulty # {}
  /\ steps = <<"deletions", "walk", "docs", "sweep">>
  /\ lastCall = "nochange"

(* ------------------------------ file filter ---------------------------- *)

\* an exclude pattern read as a glob: a star stands for any run of
\* characters, every other character for itself
RECURSIVE GlobFrom(_, _)
GlobFrom(pattern, i) ==
  IF i > Len(pattern) THEN << >>
  ELSE <<[c |-> pattern[i], any |-> pattern[i] = "*", star |-> pattern[i] = "*"]>>
       \o GlobFrom(pattern, i + 1)

GlobMatches(pattern, str) == MatchHere(GlobFrom(pattern, 1), 1, str, 1, TRUE)

GlobAccepts(filePath) ==
  /\ extname(filePath) \in supportedExtensions
  /\ \A n \in DOMAIN excludePatterns :
       /\ ~GlobMatches(excludePatterns[n], basename(filePath))
       /\ ~GlobMatches(excludePatterns[n], relative(filePath))

\* C30: shouldProcessFile accepts a path exactly when its extension is
\* supported and neither its name nor its relative path matches an exclude
\* pattern read as a glob; with the default patterns upload.ts, latest.ts
\* and digit.ts are accepted.
C30_FilterIsGlob ==
  (probe.fn = "shouldProcessFile" /\ probe.done) =>
    probe.ret = GlobAccepts(probe.filePath)

====
